---- MODULE Spec2Model ----
(***************************************************************************)
(* The token monitor of main.py: a polling loop (TokenMonitor.             *)
(* monitoring_loop) that fetches the most recent token, filters it by      *)
(* address suffix, alerts a channel and records the address in a           *)
(* file-backed set, next to the subscribe/unsubscribe command handlers     *)
(* that maintain a second file-backed set.                                 *)
(***************************************************************************)
EXTENDS Integers, Sequences, FiniteSets, TLC

VARIABLES
    seen_addresses,     \* monitor.seen_addresses, the in-memory set
    subscribed_users,   \* monitor.subscribed_users, the in-memory set
    seen_file,          \* content of seen_addresses.json
    subscribed_file,    \* content of subscribed_users.json
    monitor_task,       \* hasattr(client, "monitor_task")
    pc,                 \* where the process / the monitoring loop is suspended
    sleep_for,          \* the argument of the pending asyncio.sleep, else 0
    token_data,         \* the loop's local token_data
    run,                \* number of process starts after the first one
    tick,               \* what the current (or last completed) tick did
    invoked,            \* addresses send_alert was ever called with
    successes,          \* per address, how often send_alert returned True
    failed,             \* addresses for which send_alert returned False or raised
    everSeen,           \* addresses that were ever in seen_addresses
    tasks,              \* monitoring_loop tasks created by this process
    persisted,          \* addresses a completed save has written to the file
    last_cmd,           \* per user, the last command the user gave
    call                \* a single call of a function, with its result

vars == <<seen_addresses, subscribed_users, seen_file, subscribed_file,
          monitor_task, pc, sleep_for, token_data, run, tick, invoked,
          successes, failed, everSeen, tasks, persisted, last_cmd, call>>

\* the variables the monitoring process does not change
aux == <<last_cmd, call>>

-----------------------------------------------------------------------------
(* Configuration (class Config)                                            *)

REQUIRED_SUFFIX == "pump"
\* a banned suffix that addresses with the required suffix can end with
BANNED_SUFFIX_Ump == "ump"

BANNED_SUFFIX == "moon"
CHECK_INTERVAL == 15
ERROR_INTERVAL == 30

-----------------------------------------------------------------------------
(* Bounds and input universes                                              *)

MaxRuns == 1
MaxData == 1
MaxCount == 2
MaxItems == 3

Addresses == {"abc123pump", "xyz789moon", "def456", "moonpump"}
Users == {1, 2}

\* the key paths parse_token_data reads from a token record
RequiredKeys ==
    {"creation_timestamp", "address", "symbol", "market_info.fdv",
     "market_info.price", "market_info.holders", "pair_summary_info.liquidity",
     "market_info.volume", "logo"}

MarketInfoKeys ==
    {"market_info.fdv", "market_info.price", "market_info.holders",
     "market_info.volume"}

\* token records as the API may return them: a complete record per address,
\* and for one address records without market_info / without logo and a
\* record whose creation_timestamp is not a number
Tokens ==
    {[address |-> a, keys |-> RequiredKeys, ts_ok |-> TRUE] : a \in Addresses}
    \cup {[address |-> "abc123pump", keys |-> RequiredKeys \ MarketInfoKeys,
           ts_ok |-> TRUE],
          [address |-> "abc123pump", keys |-> RequiredKeys \ {"logo"},
           ts_ok |-> TRUE],
          [address |-> "abc123pump", keys |-> RequiredKeys, ts_ok |-> FALSE]}

\* the records that may follow the top record of a data list
TailTokens ==
    {[address |-> "def456", keys |-> RequiredKeys, ts_ok |-> TRUE],
     [address |-> "moonpump", keys |-> RequiredKeys \ MarketInfoKeys,
      ts_ok |-> TRUE]}

\* data lists of at most MaxData records
DataLists ==
    {<<>>} \cup
    {<<head>> \o tail :
        head \in Tokens,
        tail \in UNION {[1..n -> TailTokens] : n \in 0..(MaxData - 1)}}

\* HTTP outcomes of the token query: a network error, or a response with a
\* status and a JSON body that has a "data" list or not
Responses ==
    {[err |-> TRUE, status |-> 0, has_data |-> FALSE, data |-> <<>>]}
    \cup {[err |-> FALSE, status |-> s, has_data |-> h, data |-> d] :
            s \in {200, 500}, h \in {TRUE}, d \in DataLists}
    \cup {[err |-> FALSE, status |-> 200, has_data |-> FALSE, data |-> <<>>]}

\* what the Notifier call may do: return True, return False because the
\* channel is not a text channel or because of a DiscordException, or raise
\* another exception
SendOutcomes == {"sent", "not_text_channel", "discord_error", "raised"}

-----------------------------------------------------------------------------
(* Helpers                                                                 *)

Range(s) == {s[i] : i \in DOMAIN s}

\* str.endswith
EndsWith(s, suffix) ==
    /\ Len(s) >= Len(suffix)
    /\ SubSeq(s, Len(s) - Len(suffix) + 1, Len(s)) = suffix

\* list(data) of a set: the elements once each, in some order
Orderings(S) == {s \in [1..Cardinality(S) -> S] : Range(s) = S}

None == [valid |-> FALSE, address |-> ""]

-----------------------------------------------------------------------------
(* Durable set store                                                       *)

MissingFile == [kind |-> "missing", items |-> <<>>]
MalformedFile == [kind |-> "malformed", items |-> <<>>]
ArrayFile(s) == [kind |-> "array", items |-> s]
EmptyFile == [kind |-> "empty", items |-> <<>>]

\* strings a stored set may hold
StoreStrings == {"abc123pump", "def456", "a"}

\* the states of a file: missing, empty, not JSON, bytes that do not decode,
\* a file that cannot be opened; valid JSON that is a number, a string, an
\* object, an array with an array in it; arrays of strings
FileStates ==
    {MissingFile, EmptyFile, MalformedFile,
     [kind |-> "undecodable", items |-> <<>>],
     [kind |-> "unreadable", items |-> <<>>],
     [kind |-> "scalar", items |-> <<>>],
     [kind |-> "string", items |-> <<"a", "b", "a">>],
     [kind |-> "object", items |-> <<"a", "def456">>],
     [kind |-> "nested", items |-> <<>>]}
    \cup {ArrayFile(items) :
            items \in UNION {[1..n -> StoreStrings] : n \in 0..MaxItems}}

\* a load that ignores the file
load_persistence_Empty(file) == {}

\* TokenMonitor.load_persistence, when no exception leaves it: the array
\* elements, the characters of a JSON string, the keys of a JSON object, and
\* the empty set after FileNotFoundError or JSONDecodeError
load_persistence(file) ==
    IF file.kind \in {"array", "string", "object"} THEN Range(file.items)
    ELSE {}

\* TokenMonitor.load_persistence lets an exception through: TypeError of
\* set() for a JSON number, true, false or null and for an array with an
\* array or object in it, UnicodeDecodeError, and an OSError of open other
\* than FileNotFoundError
load_raises(file) ==
    file.kind \in {"scalar", "nested", "undecodable", "unreadable"}

\* a save that writes an empty array
save_persistence_Empty(data) == {ArrayFile(<<>>)}

\* TokenMonitor.save_persistence: the contents the file may have afterwards
save_persistence(data) == {ArrayFile(s) : s \in Orderings(data)}

-----------------------------------------------------------------------------
(* Token data fetcher                                                      *)

\* TokenMonitor.parse_token_data: "raise" stands for an exception other
\* than KeyError leaving the function
parse_token_data(token) ==
    IF "creation_timestamp" \notin token.keys THEN [raised |-> FALSE, value |-> None]
    ELSE IF ~token.ts_ok THEN [raised |-> TRUE, value |-> None]
    ELSE IF RequiredKeys \subseteq token.keys
         THEN [raised |-> FALSE,
               value |-> [valid |-> TRUE, address |-> token.address]]
         ELSE [raised |-> FALSE, value |-> None]

\* a fetch that does not look at the response status
fetch_token_data_NoStatus(resp) ==
    IF resp.err THEN None
    ELSE IF ~resp.has_data \/ Len(resp.data) = 0 THEN None
    ELSE LET parsed == parse_token_data(resp.data[1])
         IN  IF parsed.raised THEN None ELSE parsed.value

\* TokenMonitor.fetch_token_data
fetch_token_data(resp) ==
    IF resp.err THEN None
    ELSE IF resp.status # 200 THEN None
    ELSE IF ~resp.has_data \/ Len(resp.data) = 0 THEN None
    ELSE LET parsed == parse_token_data(resp.data[1])
         IN  IF parsed.raised THEN None ELSE parsed.value

-----------------------------------------------------------------------------
(* Alert filter and dispatcher                                             *)

\* an assignment in place of the add
MarkSeen_Replace(seen, address) == {address}

\* the set after self.seen_addresses.add(address)
MarkSeen(seen, address) == seen \cup {address}

\* filter steps without the already-processed check
TickDecision_NoSeenCheck(address, seen) ==
    IF ~EndsWith(address, REQUIRED_SUFFIX) THEN "nonpump"
    ELSE IF EndsWith(address, BANNED_SUFFIX) THEN "moon"
    ELSE "send"

\* filter steps with the already-processed check after the suffix checks
TickDecision_SeenLast(address, seen) ==
    IF ~EndsWith(address, REQUIRED_SUFFIX) THEN "nonpump"
    ELSE IF EndsWith(address, BANNED_SUFFIX) THEN "moon"
    ELSE IF address \in seen THEN "seen"
    ELSE "send"

\* filter steps without the required-suffix check
TickDecision_NoRequired(address, seen) ==
    IF address \in seen THEN "seen"
    ELSE IF EndsWith(address, BANNED_SUFFIX) THEN "moon"
    ELSE "send"

\* filter steps without any suffix check
TickDecision_NoSuffix(address, seen) ==
    IF address \in seen THEN "seen" ELSE "send"

\* a filter that alerts only while somebody is subscribed
TickDecision_ForSubscribers(address, seen) ==
    IF address \in seen \/ subscribed_users = {} THEN "seen"
    ELSE IF ~EndsWith(address, REQUIRED_SUFFIX) THEN "nonpump"
    ELSE IF EndsWith(address, BANNED_SUFFIX) THEN "moon"
    ELSE "send"

\* the filter steps of monitoring_loop, in the order of the code:
\* already processed, not ending with the required suffix, ending with the
\* banned suffix, otherwise the alert is sent
TickDecision(address, seen) ==
    IF address \in seen THEN "seen"
    ELSE IF ~EndsWith(address, REQUIRED_SUFFIX) THEN "nonpump"
    ELSE IF EndsWith(address, BANNED_SUFFIX) THEN "moon"
    ELSE "send"

\* TokenMonitor.send_alert: its return value, "raise" when an exception
\* that is not a DiscordException leaves it
send_alert(outcome) ==
    IF outcome = "sent" THEN "True"
    ELSE IF outcome \in {"not_text_channel", "discord_error"} THEN "False"
    ELSE "raise"

\* the address is added whatever send_alert returned
AfterSend_Always(result, seen, address) == seen \cup {address}

\* the address is not added after a successful alert
AfterSend_Never(result, seen, address) == seen

\* the set after `if await self.send_alert(token_data): add(address)`
AfterSend(result, seen, address) ==
    IF result = "True" THEN MarkSeen(seen, address) ELSE seen

\* the interval sleep after every call of send_alert
PauseAfterSend_NoFallback(result) == CHECK_INTERVAL

\* the argument of the asyncio.sleep that follows the call of send_alert
PauseAfterSend(result) ==
    IF result = "raise" THEN ERROR_INTERVAL ELSE CHECK_INTERVAL

-----------------------------------------------------------------------------
(* Bookkeeping of a tick (observation only, no program state)              *)

\* the shape of an HTTP outcome
RespShape(resp) ==
    IF resp.err THEN "network_error"
    ELSE IF resp.status # 200 THEN "bad_status"
    ELSE IF ~resp.has_data THEN "no_data"
    ELSE IF Len(resp.data) = 0 THEN "empty_data"
    ELSE IF ~(RequiredKeys \subseteq resp.data[1].keys) THEN "missing_field"
    ELSE IF ~resp.data[1].ts_ok THEN "wrong_type"
    ELSE "record"

\* the elements of the JSON array a file holds (none without an array)
StoredSet(file) ==
    IF file.kind = "array" THEN {file.items[i] : i \in DOMAIN file.items}
    ELSE {}

NoCall == [fn |-> "-"]

IdleTick ==
    [phase |-> "idle", shape |-> "-", fetched |-> FALSE, addr |-> "",
     wasSeen |-> FALSE, calls |-> 0, saves |-> 0, send |-> "-"]

Min(a, b) == IF a < b THEN a ELSE b

-----------------------------------------------------------------------------
(* Initial state: the process has constructed TokenMonitor()               *)

InitSeenFiles == {MissingFile, MalformedFile, ArrayFile(<<"def456">>)}
InitSubscribedFiles == {MissingFile, ArrayFile(<<2>>)}

Init ==
    /\ seen_file \in InitSeenFiles
    /\ subscribed_file \in InitSubscribedFiles
    /\ seen_addresses = load_persistence(seen_file)
    /\ subscribed_users = load_persistence(subscribed_file)
    /\ monitor_task = FALSE
    /\ pc = "idle"
    /\ sleep_for = 0
    /\ token_data = None
    /\ run = 0
    /\ tick = IdleTick
    /\ invoked = {}
    /\ successes = [a \in Addresses |-> 0]
    /\ failed = {}
    /\ everSeen = load_persistence(seen_file)
    /\ tasks = 0
    /\ persisted = StoredSet(seen_file)
    /\ last_cmd = [u \in Users |-> "none"]
    /\ call = NoCall

-----------------------------------------------------------------------------
(* Actions                                                                 *)

\* a guard that lets every on_ready create a task
SpawnGuard_Always(has_task) == TRUE

\* on_ready: `if not hasattr(client, "monitor_task")`
SpawnGuard(has_task) == ~has_task

\* on_ready: creates the monitoring task once; the task runs to its first
\* suspension point, the HTTP request of fetch_token_data
OnReady ==
    /\ pc # "stopped"
    /\ IF SpawnGuard(monitor_task)
       THEN /\ monitor_task' = TRUE
            /\ tasks' = Min(tasks + 1, MaxCount)
            /\ pc' = "fetch"
       ELSE UNCHANGED <<monitor_task, tasks, pc>>
    /\ UNCHANGED <<seen_addresses, subscribed_users, seen_file,
                   subscribed_file, sleep_for, token_data, run, tick,
                   invoked, successes, failed, everSeen, persisted>>
    /\ UNCHANGED aux

\* the response of the token query arrives: the loop runs from the return
\* of fetch_token_data to its next suspension point
Fetch(resp) ==
    /\ pc = "fetch"
    /\ LET td == fetch_token_data(resp)
           address == td.address
           decision == TickDecision(address, seen_addresses)
           t0 == [phase |-> "done", shape |-> RespShape(resp),
                  fetched |-> td.valid, addr |-> address,
                  wasSeen |-> address \in seen_addresses,
                  calls |-> 0, saves |-> 0, send |-> "-"]
       IN  /\ token_data' = td
           /\ IF ~td.valid
              THEN \* nothing fetched: asyncio.sleep(CHECK_INTERVAL)
                   /\ pc' = "sleep"
                   /\ sleep_for' = CHECK_INTERVAL
                   /\ tick' = t0
                   /\ UNCHANGED <<seen_addresses, seen_file, invoked, everSeen,
                                  persisted>>
              ELSE IF decision = "seen"
              THEN \* continue: the next request starts at once
                   /\ pc' = "fetch"
                   /\ sleep_for' = 0
                   /\ tick' = t0
                   /\ UNCHANGED <<seen_addresses, seen_file, invoked, everSeen,
                                  persisted>>
              ELSE IF decision \in {"nonpump", "moon"}
              THEN \* add, save, continue
                   /\ seen_addresses' = MarkSeen(seen_addresses, address)
                   /\ seen_file' \in save_persistence(seen_addresses')
                   /\ everSeen' = everSeen \cup seen_addresses'
                   /\ persisted' = persisted \cup seen_addresses'
                   /\ pc' = "fetch"
                   /\ sleep_for' = 0
                   /\ tick' = [t0 EXCEPT !.saves = 1]
                   /\ UNCHANGED invoked
              ELSE \* send_alert is called and awaits the channel
                   /\ pc' = "send"
                   /\ sleep_for' = 0
                   /\ tick' = [t0 EXCEPT !.phase = "sending", !.calls = 1]
                   /\ invoked' = invoked \cup {address}
                   /\ UNCHANGED <<seen_addresses, seen_file, everSeen,
                                  persisted>>
    /\ UNCHANGED <<subscribed_users, subscribed_file, monitor_task, run,
                   successes, failed, tasks>>
    /\ UNCHANGED aux

\* send_alert finishes: the loop runs to its sleep
SendDone(outcome) ==
    /\ pc = "send"
    /\ LET address == token_data.address
           result == send_alert(outcome)
       IN  /\ seen_addresses' = AfterSend(result, seen_addresses, address)
           /\ IF result = "True"
              THEN /\ seen_file' \in save_persistence(seen_addresses')
                   /\ successes' = [successes EXCEPT
                                      ![address] = Min(@ + 1, MaxCount)]
                   /\ persisted' = persisted \cup seen_addresses'
                   /\ UNCHANGED failed
              ELSE /\ failed' = failed \cup {address}
                   /\ UNCHANGED <<seen_file, successes, persisted>>
           /\ everSeen' = everSeen \cup seen_addresses'
           /\ pc' = "sleep"
           /\ sleep_for' = PauseAfterSend(result)
           /\ tick' = [tick EXCEPT !.phase = "done", !.send = outcome,
                                   !.saves = IF result = "True" THEN 1 ELSE 0]
    /\ UNCHANGED <<subscribed_users, subscribed_file, monitor_task,
                   token_data, run, invoked, tasks>>
    /\ UNCHANGED aux

\* asyncio.sleep returns: the loop starts the next request
Wake ==
    /\ pc = "sleep"
    /\ pc' = "fetch"
    /\ sleep_for' = 0
    /\ tick' = IdleTick
    /\ UNCHANGED <<seen_addresses, subscribed_users, seen_file,
                   subscribed_file, monitor_task, token_data, run, invoked,
                   successes, failed, everSeen, tasks, persisted>>
    /\ UNCHANGED aux

\* set.add of the subscribe handler
add(users, user) == users \cup {user}

\* a discard that removes nothing
discard_Keep(users, user) == users

\* set.discard of the unsubscribe handler
discard(users, user) == users \ {user}

\* the subscribe command
Subscribe(user) ==
    /\ pc # "stopped"
    /\ subscribed_users' = add(subscribed_users, user)
    /\ subscribed_file' \in save_persistence(subscribed_users')
    /\ UNCHANGED <<seen_addresses, seen_file, monitor_task, pc, sleep_for,
                   token_data, run, tick, invoked, successes, failed,
                   everSeen, tasks, persisted>>
    /\ UNCHANGED aux

\* the unsubscribe command
Unsubscribe(user) ==
    /\ pc # "stopped"
    /\ subscribed_users' = discard(subscribed_users, user)
    /\ subscribed_file' \in save_persistence(subscribed_users')
    /\ UNCHANGED <<seen_addresses, seen_file, monitor_task, pc, sleep_for,
                   token_data, run, tick, invoked, successes, failed,
                   everSeen, tasks, persisted>>
    /\ UNCHANGED aux

\* KeyboardInterrupt while the loop is not in a tick: both sets are saved
\* and the process ends
Shutdown ==
    /\ pc \in {"idle", "sleep"}
    /\ seen_file' \in save_persistence(seen_addresses)
    /\ subscribed_file' \in save_persistence(subscribed_users)
    /\ pc' = "stopped"
    /\ sleep_for' = 0
    /\ tick' = IdleTick
    /\ persisted' = persisted \cup seen_addresses
    /\ UNCHANGED <<seen_addresses, subscribed_users, monitor_task,
                   token_data, run, invoked, successes, failed, everSeen,
                   tasks>>
    /\ UNCHANGED aux

\* the process is ended by another signal while the loop is not in a tick:
\* nothing is saved
Terminate ==
    /\ pc \in {"idle", "sleep"}
    /\ pc' = "stopped"
    /\ sleep_for' = 0
    /\ tick' = IdleTick
    /\ UNCHANGED <<seen_addresses, subscribed_users, seen_file,
                   subscribed_file, monitor_task, token_data, run, invoked,
                   successes, failed, everSeen, tasks, persisted>>
    /\ UNCHANGED aux

\* the process is started again: TokenMonitor.__init__ loads both sets
Start ==
    /\ pc = "stopped"
    /\ run < MaxRuns
    /\ seen_addresses' = load_persistence(seen_file)
    /\ subscribed_users' = load_persistence(subscribed_file)
    /\ everSeen' = everSeen \cup seen_addresses'
    /\ monitor_task' = FALSE
    /\ pc' = "idle"
    /\ sleep_for' = 0
    /\ token_data' = None
    /\ run' = run + 1
    /\ tick' = IdleTick
    /\ tasks' = 0
    /\ UNCHANGED <<seen_file, subscribed_file, invoked, successes, failed,
                   persisted>>
    /\ UNCHANGED aux

Next ==
    \/ OnReady
    \/ \E resp \in Responses : Fetch(resp)
    \/ \E outcome \in SendOutcomes : SendDone(outcome)
    \/ Wake
    \/ \E user \in Users : Subscribe(user)
    \/ \E user \in Users : Unsubscribe(user)
    \/ Shutdown
    \/ Terminate
    \/ Start

Spec == Init /\ [][Next]_vars

-----------------------------------------------------------------------------
(* Properties                                                              *)

\* the address is an element of the JSON array the file holds
InFile(address, file) ==
    /\ file.kind = "array"
    /\ \E i \in DOMAIN file.items : file.items[i] = address

TickDone == tick.phase = "done"

\* a step in which the loop handles the response of the token query
TickStep == pc = "fetch" /\ tick' # tick /\ tick'.phase # "idle"

FailureOutcomes == {"not_text_channel", "discord_error", "raised"}

NullShapes ==
    {"network_error", "bad_status", "no_data", "empty_data", "missing_field",
     "wrong_type"}

\* C1: with restarts between ticks and saves that succeed, send_alert
\* returns True at most once per address, and the set in memory (loaded at
\* each start) holds every address that was ever added to it.
C1_ExactlyOnceAcrossRestarts ==
    /\ \A a \in Addresses : successes[a] <= 1
    /\ everSeen \subseteq seen_addresses

\* an alerted address is in the set a restarted process has just loaded
C1_Witness ==
    /\ run >= 1
    /\ pc = "idle"
    /\ \E a \in Addresses : successes[a] = 1 /\ a \in seen_addresses

\* C2: no step calls send_alert with an address that is, or ever was, in
\* seen_addresses.
C2_NoAlertOnceSeen ==
    [][\A a \in everSeen :
          ~(pc # "send" /\ pc' = "send" /\ token_data'.address = a)]_vars

\* an address that was alerted is fetched again and skipped without a call
C2_Witness ==
    /\ TickDone
    /\ tick.fetched
    /\ tick.wasSeen
    /\ tick.calls = 0
    /\ successes[tick.addr] = 1

\* C3: after a tick that sent an alert, skipped a seen address, skipped an
\* address by a suffix rule or fetched nothing, the loop is in the interval
\* sleep before the next request of the Fetcher starts.
C3_SleepAfterEveryTick ==
    (TickDone /\ tick.send \in {"-", "sent"}) =>
        pc = "sleep" /\ sleep_for = 15

\* C4: after send_alert returned False or raised for a never-seen address,
\* the address is neither in seen_addresses nor in the file; it stays absent
\* until an alert for it succeeds, and every tick that fetches it meanwhile
\* calls send_alert.
C4_FailedAlertStaysUnseen ==
    /\ (TickDone /\ tick.send \in FailureOutcomes) =>
          /\ tick.addr \notin seen_addresses
          /\ ~InFile(tick.addr, seen_file)
    /\ \A a \in failed :
          successes[a] = 0 =>
              a \notin seen_addresses /\ ~InFile(a, seen_file)
    /\ (TickDone /\ tick.fetched /\ tick.addr \in failed
          /\ successes[tick.addr] = 0) => tick.calls = 1

\* the alert for an address succeeds on a retry after it had failed
C4_Witness ==
    /\ TickDone
    /\ tick.send = "sent"
    /\ tick.addr \in failed
    /\ tick.addr \in seen_addresses

\* C5: a tick that fetches a never-seen address not ending with "pump" adds
\* it to seen_addresses and saves the file without calling send_alert, and
\* send_alert is never called with such an address.
C5_NonPumpMarkedNeverAlerted ==
    /\ (TickDone /\ tick.fetched /\ ~tick.wasSeen
          /\ ~EndsWith(tick.addr, "pump")) =>
          /\ tick.addr \in seen_addresses
          /\ InFile(tick.addr, seen_file)
          /\ tick.saves = 1
          /\ tick.calls = 0
    /\ \A a \in invoked : EndsWith(a, "pump")

\* "def456", not seen before, has been fetched and marked
C5_Witness ==
    /\ TickDone
    /\ tick.fetched
    /\ ~tick.wasSeen
    /\ tick.addr = "def456"
    /\ "def456" \in seen_addresses
    /\ InFile("def456", seen_file)

\* C6: a tick that fetches a never-seen address ending with "moon" adds it
\* to seen_addresses and saves the file without calling send_alert, and
\* send_alert is never called with such an address.
C6_MoonMarkedNeverAlerted ==
    /\ (TickDone /\ tick.fetched /\ ~tick.wasSeen
          /\ EndsWith(tick.addr, "moon")) =>
          /\ tick.addr \in seen_addresses
          /\ InFile(tick.addr, seen_file)
          /\ tick.saves = 1
          /\ tick.calls = 0
    /\ \A a \in invoked : ~EndsWith(a, "moon")

\* "xyz789moon", not seen before, has been fetched and marked
C6_Witness ==
    /\ TickDone
    /\ tick.fetched
    /\ ~tick.wasSeen
    /\ tick.addr = "xyz789moon"
    /\ "xyz789moon" \in seen_addresses
    /\ InFile("xyz789moon", seen_file)

\* C7: a tick that fetches a never-seen address ending with "pump" and not
\* with "moon" calls send_alert exactly once; while the call is pending the
\* address is in neither the set nor the file, and when it has returned True
\* the address is in both and the file was saved once.
C7_AlertThenMark ==
    /\ (tick.phase # "idle" /\ tick.fetched /\ ~tick.wasSeen
          /\ EndsWith(tick.addr, "pump") /\ ~EndsWith(tick.addr, "moon")) =>
          tick.calls = 1
    /\ pc = "send" =>
          /\ tick.phase = "sending"
          /\ tick.addr = token_data.address
          /\ token_data.address \notin seen_addresses
          /\ ~InFile(token_data.address, seen_file)
    /\ (TickDone /\ tick.send = "sent") =>
          /\ tick.calls = 1
          /\ tick.saves = 1
          /\ tick.addr \in seen_addresses
          /\ InFile(tick.addr, seen_file)

\* the alert for "abc123pump", not seen before, has been sent
C7_Witness ==
    /\ TickDone
    /\ tick.send = "sent"
    /\ ~tick.wasSeen
    /\ tick.addr = "abc123pump"
    /\ "abc123pump" \in seen_addresses
    /\ InFile("abc123pump", seen_file)

\* C8: a tick whose response is a network error, a status other than 200,
\* a body without data, an empty data list or a top record with a missing or
\* wrongly typed field leaves seen_addresses and the file as they are, does
\* not call send_alert and goes to the interval sleep.
C8_NullFetchNoEffect ==
    [][(TickStep /\ tick'.shape \in NullShapes) =>
          /\ seen_addresses' = seen_addresses
          /\ seen_file' = seen_file
          /\ invoked' = invoked
          /\ tick'.calls = 0
          /\ tick'.saves = 0
          /\ pc' = "sleep"
          /\ sleep_for' = 15]_vars

\* a record without market_info was fetched while the set was not empty
C8_Witness ==
    /\ TickDone
    /\ tick.shape = "missing_field"
    /\ pc = "sleep"
    /\ seen_addresses # {}

\* C9: a tick whose fetched address is in seen_addresses leaves the set and
\* the file as they are, does not save and does not call send_alert.
C9_SeenSkipNoEffect ==
    [][(TickStep /\ tick'.fetched /\ tick'.addr \in seen_addresses) =>
          /\ seen_addresses' = seen_addresses
          /\ seen_file' = seen_file
          /\ invoked' = invoked
          /\ tick'.calls = 0
          /\ tick'.saves = 0]_vars

\* an address that was in the set has been fetched and skipped
C9_Witness ==
    /\ TickDone
    /\ tick.fetched
    /\ tick.wasSeen
    /\ tick.addr \in seen_addresses
    /\ tick.saves = 0
    /\ pc = "fetch"

\* C10: within a process run no step removes an address from
\* seen_addresses.
C10_SeenOnlyGrows ==
    [][run' = run => seen_addresses \subseteq seen_addresses']_vars

\* the set has grown to three addresses
C10_Witness == Cardinality(seen_addresses) >= 3 /\ pc # "stopped"

C14_SingleMonitoringTask ==
    /\ [](/\ tasks <= 1
          /\ monitor_task <=> (tasks = 1)
          /\ pc \in {"fetch", "send", "sleep"} => tasks = 1)
    /\ [][pc = "send" => pc' \in {"send", "sleep"}]_vars

\* the task exists and is in a tick while on_ready may fire again
C14_Witness ==
    /\ monitor_task
    /\ tasks = 1
    /\ pc = "send"
    /\ ENABLED OnReady

-----------------------------------------------------------------------------
(* The durable set store on its own: load and save applied to a file       *)

\* everything but `call`, as in the initial state of a process without files
main ==
    <<seen_addresses, subscribed_users, seen_file, subscribed_file,
      monitor_task, pc, sleep_for, token_data, run, tick, invoked, successes,
      failed, everSeen, tasks, persisted, last_cmd>>

Quiet ==
    /\ seen_file = MissingFile
    /\ subscribed_file = MissingFile
    /\ seen_addresses = {}
    /\ subscribed_users = {}
    /\ monitor_task = FALSE
    /\ pc = "idle"
    /\ sleep_for = 0
    /\ token_data = None
    /\ run = 0
    /\ tick = IdleTick
    /\ invoked = {}
    /\ successes = [a \in Addresses |-> 0]
    /\ failed = {}
    /\ everSeen = {}
    /\ tasks = 0
    /\ persisted = {}
    /\ last_cmd = [u \in Users |-> "none"]

StoreCall(fn, before, file, set, loaded, raised) ==
    [fn |-> fn, before |-> before, file |-> file, set |-> set,
     loaded |-> loaded, raised |-> raised]

StoreInit ==
    /\ Quiet
    /\ \E file \in FileStates :
          call = StoreCall("file", file, file, {}, {}, FALSE)

\* load_persistence(F)
StoreLoad ==
    /\ call.fn = "file"
    /\ call' = [call EXCEPT
                  !.fn = "load",
                  !.raised = load_raises(call.file),
                  !.loaded = IF load_raises(call.file) THEN {}
                             ELSE load_persistence(call.file)]
    /\ UNCHANGED main

\* save_persistence(load_persistence(F), F)
StoreResave ==
    /\ call.fn = "load"
    /\ ~call.raised
    /\ \E file \in save_persistence(call.loaded) :
          call' = [call EXCEPT !.fn = "resave", !.file = file,
                               !.set = call.loaded]
    /\ UNCHANGED main

\* save_persistence(S, F)
StoreSave(set) ==
    /\ call.fn = "file"
    /\ call.file.kind # "unreadable"
    /\ \E file \in save_persistence(set) :
          call' = [call EXCEPT !.fn = "save", !.file = file, !.set = set]
    /\ UNCHANGED main

\* load_persistence(F) after save_persistence(S, F)
StoreReload ==
    /\ call.fn \in {"save", "resave"}
    /\ call' = [call EXCEPT
                  !.fn = "reload",
                  !.raised = load_raises(call.file),
                  !.loaded = IF load_raises(call.file) THEN {}
                             ELSE load_persistence(call.file)]
    /\ UNCHANGED main

StoreNext ==
    \/ StoreLoad
    \/ StoreResave
    \/ \E set \in SUBSET StoreStrings : StoreSave(set)
    \/ StoreReload

SpecStore == StoreInit /\ [][StoreNext]_vars

\* C12: load_persistence returns a set for every state of the file, and
\* the empty set for a missing file, an empty file and a file that is not
\* valid JSON.
C12_LoadNeverFails ==
    call.fn = "load" =>
        /\ ~call.raised
        /\ call.before.kind \in
              {"missing", "empty", "malformed", "undecodable"} =>
              call.loaded = {}

-----------------------------------------------------------------------------
(* Failing saves and unclean terminations                                  *)

\* the file after a save_persistence that did not complete: not yet opened,
\* truncated by open(filename, "w"), or written in part
InterruptedSave(file) == {file, EmptyFile, MalformedFile}

\* a tick that skips an address by a suffix rule and whose save_persistence
\* raises: the handler of line 191 logs and sleeps 30 seconds
FetchSaveError(resp) ==
    /\ pc = "fetch"
    /\ LET td == fetch_token_data(resp)
           address == td.address
           decision == TickDecision(address, seen_addresses)
       IN  /\ td.valid
           /\ decision \in {"nonpump", "moon"}
           /\ token_data' = td
           /\ seen_addresses' = MarkSeen(seen_addresses, address)
           /\ seen_file' \in InterruptedSave(seen_file)
           /\ everSeen' = everSeen \cup seen_addresses'
           /\ pc' = "sleep"
           /\ sleep_for' = ERROR_INTERVAL
           /\ tick' = [phase |-> "failed", shape |-> RespShape(resp),
                       fetched |-> TRUE, addr |-> address, wasSeen |-> FALSE,
                       calls |-> 0, saves |-> 1, send |-> "-"]
    /\ UNCHANGED <<subscribed_users, subscribed_file, monitor_task, run,
                   invoked, successes, failed, tasks, persisted>>
    /\ UNCHANGED aux

\* send_alert returns True and the save_persistence that follows raises
SendSaveError ==
    /\ pc = "send"
    /\ LET address == token_data.address
       IN  /\ seen_addresses' = AfterSend("True", seen_addresses, address)
           /\ seen_file' \in InterruptedSave(seen_file)
           /\ successes' = [successes EXCEPT
                              ![address] = Min(@ + 1, MaxCount)]
           /\ everSeen' = everSeen \cup seen_addresses'
           /\ pc' = "sleep"
           /\ sleep_for' = ERROR_INTERVAL
           /\ tick' = [tick EXCEPT !.phase = "failed", !.send = "sent",
                                   !.saves = 1]
    /\ UNCHANGED <<subscribed_users, subscribed_file, monitor_task,
                   token_data, run, invoked, failed, tasks, persisted>>
    /\ UNCHANGED aux

\* a step of the monitoring loop
LoopStep ==
    \/ \E resp \in Responses : Fetch(resp)
    \/ \E resp \in Responses : FetchSaveError(resp)
    \/ \E outcome \in SendOutcomes : SendDone(outcome)
    \/ SendSaveError
    \/ Wake

LiveNext ==
    \/ OnReady
    \/ \E resp \in Responses : Fetch(resp)
    \/ \E resp \in Responses : FetchSaveError(resp)
    \/ \E outcome \in SendOutcomes : SendDone(outcome)
    \/ SendSaveError
    \/ Wake

\* a running process whose saves may fail: every pending request, call of
\* the Notifier and sleep of the loop ends
LiveSpec == Init /\ [][LiveNext]_vars /\ WF_vars(LoopStep)

\* a tick that ended in the handler of `except Exception`
ErrorTick ==
    \/ tick.phase = "failed"
    \/ tick.phase = "done" /\ tick.send = "raised"

\* C15: a tick in which send_alert or save_persistence raises ends in the
\* 30 second sleep, and after such a tick the loop sends the next request
\* of the Fetcher.
C15_LoopSurvivesErrors ==
    /\ [](ErrorTick => pc = "sleep" /\ sleep_for = 30)
    /\ ErrorTick ~> (pc = "fetch")

\* the loop has sent a request after a tick whose save failed
C15_Witness ==
    /\ pc = "fetch"
    /\ tick = IdleTick
    /\ StoredSet(seen_file) # seen_addresses

-----------------------------------------------------------------------------
(* Unclean terminations                                                    *)

\* the process is killed while a request of the loop is pending
Kill ==
    /\ pc \in {"fetch", "send"}
    /\ pc' = "stopped"
    /\ sleep_for' = 0
    /\ tick' = IdleTick
    /\ UNCHANGED <<seen_addresses, subscribed_users, seen_file,
                   subscribed_file, monitor_task, token_data, run, invoked,
                   successes, failed, everSeen, tasks, persisted>>
    /\ UNCHANGED aux

\* the process is killed in a tick that skips an address by a suffix rule,
\* after the add and before save_persistence has completed
FetchCrash(resp) ==
    /\ pc = "fetch"
    /\ LET td == fetch_token_data(resp)
           address == td.address
           decision == TickDecision(address, seen_addresses)
       IN  /\ td.valid
           /\ decision \in {"nonpump", "moon"}
           /\ token_data' = td
           /\ seen_addresses' = MarkSeen(seen_addresses, address)
           /\ seen_file' \in InterruptedSave(seen_file)
           /\ everSeen' = everSeen \cup seen_addresses'
    /\ pc' = "stopped"
    /\ sleep_for' = 0
    /\ tick' = IdleTick
    /\ UNCHANGED <<subscribed_users, subscribed_file, monitor_task, run,
                   invoked, successes, failed, tasks, persisted>>
    /\ UNCHANGED aux

\* the process is killed after send_alert returned True and the address was
\* added, before save_persistence has completed
SendCrash ==
    /\ pc = "send"
    /\ LET address == token_data.address
       IN  /\ seen_addresses' = AfterSend("True", seen_addresses, address)
           /\ seen_file' \in InterruptedSave(seen_file)
           /\ successes' = [successes EXCEPT
                              ![address] = Min(@ + 1, MaxCount)]
           /\ everSeen' = everSeen \cup seen_addresses'
    /\ pc' = "stopped"
    /\ sleep_for' = 0
    /\ tick' = IdleTick
    /\ UNCHANGED <<subscribed_users, subscribed_file, monitor_task,
                   token_data, run, invoked, failed, tasks, persisted>>
    /\ UNCHANGED aux

CrashNext ==
    \/ OnReady
    \/ \E resp \in Responses : Fetch(resp)
    \/ \E outcome \in SendOutcomes : SendDone(outcome)
    \/ Wake
    \/ Terminate
    \/ Kill
    \/ \E resp \in Responses : FetchCrash(resp)
    \/ SendCrash
    \/ Start

\* a process that may be killed at any point of a tick and started again
SpecCrash == Init /\ [][CrashNext]_vars

\* C19: after an unclean termination and a restart, the loaded set holds
\* every address that a completed save had written to the file.
C19_CrashLosesAtMostLast ==
    (run >= 1 /\ pc # "stopped") => persisted \subseteq seen_addresses

-----------------------------------------------------------------------------
(* Who changes what                                                        *)

\* C18: while the process runs, a step that changes the subscribed set or
\* its file leaves the seen set, its file and the loop where they are; a
\* step that changes the seen set or its file is a step of the loop, and
\* every step of the loop leaves the subscribed set and its file as they
\* are; whether a tick calls send_alert is decided by the fetched address
\* and the seen set alone.
C18_SeparateOwners ==
    /\ [][(pc # "stopped" /\ pc' # "stopped") =>
            /\ (\/ subscribed_users' # subscribed_users
                \/ subscribed_file' # subscribed_file) =>
                  UNCHANGED <<seen_addresses, seen_file, pc, tick,
                              token_data, invoked>>
            /\ (seen_addresses' # seen_addresses \/ seen_file' # seen_file) =>
                  pc \in {"fetch", "send"}
            /\ (pc' # pc \/ tick' # tick) =>
                  UNCHANGED <<subscribed_users, subscribed_file>>]_vars
    /\ []((tick.phase \in {"sending", "done"} /\ tick.fetched) =>
            (tick.calls = 1 <=>
                ~tick.wasSeen /\ EndsWith(tick.addr, "pump")))

\* in the first run the last subscriber has unsubscribed, and a tick has
\* sent its alert and saved the address
C18_Witness ==
    /\ run = 0
    /\ subscribed_users = {}
    /\ subscribed_file = ArrayFile(<<>>)
    /\ TickDone
    /\ tick.calls = 1
    /\ tick.saves = 1
    /\ InFile(tick.addr, seen_file)

-----------------------------------------------------------------------------
(* The Fetcher on its own: fetch_token_data applied to an HTTP outcome     *)

\* top records with every required key, without one of them, or without
\* market_info, the creation_timestamp being a number or not
FetchTokens ==
    {[address |-> a, keys |-> RequiredKeys \ missing, ts_ok |-> t] :
        a \in {"abc123pump", "def456"},
        missing \in {{}} \cup {{k} : k \in RequiredKeys} \cup {MarketInfoKeys},
        t \in BOOLEAN}

\* outcomes of session.get and resp.json(): an exception of the request, or
\* a status with a body that is not JSON, JSON that is no object, an object
\* whose "data" is missing, no list, or a list whose top element is a record
\* or not
FetchOutcomes ==
    {[err |-> TRUE, exc |-> x, status |-> 0, body |-> "-",
      has_data |-> FALSE, data |-> <<>>] :
        x \in {"ClientError", "TimeoutError"}}
    \cup {[err |-> FALSE, exc |-> "-", status |-> st, body |-> b,
           has_data |-> FALSE, data |-> <<>>] :
            st \in {200, 404, 500},
            b \in {"not_json", "not_object", "object", "data_not_list",
                   "head_not_record"}}
    \cup {[err |-> FALSE, exc |-> "-", status |-> st, body |-> "object",
           has_data |-> TRUE, data |-> d] :
            st \in {200, 500},
            d \in {<<>>} \cup {<<t>> : t \in FetchTokens}}

\* the exception classes that can leave the try block of fetch_token_data
ExceptionClasses ==
    {"ClientError", "TimeoutError", "JSONDecodeError", "AttributeError",
     "KeyError", "TypeError"}

\* the try block of fetch_token_data (lines 66-77): the exception that
\* leaves it, or the value it returns
fetch_try(outcome) ==
    IF outcome.err THEN [exc |-> outcome.exc, value |-> None]
    ELSE IF outcome.status # 200 THEN [exc |-> "none", value |-> None]
    ELSE IF outcome.body = "not_json"
         THEN [exc |-> "JSONDecodeError", value |-> None]
    ELSE IF outcome.body = "not_object"
         THEN [exc |-> "AttributeError", value |-> None]
    ELSE IF outcome.body = "data_not_list"
         THEN [exc |-> "KeyError", value |-> None]
    ELSE IF outcome.body = "head_not_record"
         THEN [exc |-> "TypeError", value |-> None]
    ELSE IF ~outcome.has_data \/ Len(outcome.data) = 0
         THEN [exc |-> "none", value |-> None]
    ELSE LET parsed == parse_token_data(outcome.data[1])
         IN  IF parsed.raised THEN [exc |-> "TypeError", value |-> None]
             ELSE [exc |-> "none", value |-> parsed.value]

\* handlers for the network errors only
fetch_caught_NetworkOnly(exc) == exc \in {"ClientError", "TimeoutError"}

\* the handlers of fetch_token_data (lines 79-82): ClientError and
\* TimeoutError, then every Exception
fetch_caught(exc) ==
    \/ exc \in {"ClientError", "TimeoutError"}
    \/ exc \in ExceptionClasses

\* a call of fetch_token_data as its caller sees it
fetch_call(outcome) ==
    LET try == fetch_try(outcome)
    IN  IF try.exc = "none" THEN [raised |-> FALSE, value |-> try.value]
        ELSE IF fetch_caught(try.exc) THEN [raised |-> FALSE, value |-> None]
        ELSE [raised |-> TRUE, value |-> None]

FetchInit ==
    /\ Quiet
    /\ \E outcome \in FetchOutcomes :
          call = [fn |-> "request", input |-> outcome, raised |-> FALSE,
                  value |-> None]

FetchCall ==
    /\ call.fn = "request"
    /\ call' = [call EXCEPT !.fn = "fetch",
                            !.raised = fetch_call(call.input).raised,
                            !.value = fetch_call(call.input).value]
    /\ UNCHANGED main

SpecFetch == FetchInit /\ [][FetchCall]_vars

\* C16: fetch_token_data raises nothing; it returns None, or the record of
\* a top element that has every required key; for the outcomes the loop is
\* modelled with, the value is the one the loop uses.
C16_FetcherNeverRaises ==
    call.fn = "fetch" =>
        /\ ~call.raised
        /\ \/ call.value = None
           \/ /\ call.value.valid
              /\ Len(call.input.data) >= 1
              /\ RequiredKeys \subseteq call.input.data[1].keys
              /\ call.value.address = call.input.data[1].address
        /\ (call.input.body \in {"-", "object"}) =>
              call.value = fetch_token_data(call.input)

\* a top record with a creation_timestamp that is no number was fetched
C16_Witness ==
    /\ call.fn = "fetch"
    /\ call.input.status = 200
    /\ Len(call.input.data) = 1
    /\ ~call.input.data[1].ts_ok
    /\ RequiredKeys \subseteq call.input.data[1].keys
    /\ call.value = None

-----------------------------------------------------------------------------
(* The command handlers with their history: per user the last command, and *)
(* in call the command that ran last with the set it found                 *)

CmdSubscribedFiles ==
    InitSubscribedFiles \cup {MalformedFile, ArrayFile(<<1>>),
                              ArrayFile(<<2, 1>>)}

\* the program of Init on any subscribed-users file; a user of the loaded
\* set is marked "loaded" until the user's first command
CmdInit ==
    /\ seen_file \in InitSeenFiles
    /\ subscribed_file \in CmdSubscribedFiles
    /\ seen_addresses = load_persistence(seen_file)
    /\ subscribed_users = load_persistence(subscribed_file)
    /\ monitor_task = FALSE
    /\ pc = "idle"
    /\ sleep_for = 0
    /\ token_data = None
    /\ run = 0
    /\ tick = IdleTick
    /\ invoked = {}
    /\ successes = [a \in Addresses |-> 0]
    /\ failed = {}
    /\ everSeen = load_persistence(seen_file)
    /\ tasks = 0
    /\ persisted = StoredSet(seen_file)
    /\ last_cmd = [u \in Users |->
                     IF u \in subscribed_users THEN "loaded" ELSE "none"]
    /\ call = NoCall

\* the subscribe command, logged
CmdSubscribe(user) ==
    /\ pc # "stopped"
    /\ subscribed_users' = add(subscribed_users, user)
    /\ subscribed_file' \in save_persistence(subscribed_users')
    /\ last_cmd' = [last_cmd EXCEPT ![user] = "subscribe"]
    /\ call' = [fn |-> "subscribe", user |-> user,
                before |-> subscribed_users]
    /\ UNCHANGED <<seen_addresses, seen_file, monitor_task, pc, sleep_for,
                   token_data, run, tick, invoked, successes, failed,
                   everSeen, tasks, persisted>>

\* the unsubscribe command, logged
CmdUnsubscribe(user) ==
    /\ pc # "stopped"
    /\ subscribed_users' = discard(subscribed_users, user)
    /\ subscribed_file' \in save_persistence(subscribed_users')
    /\ last_cmd' = [last_cmd EXCEPT ![user] = "unsubscribe"]
    /\ call' = [fn |-> "unsubscribe", user |-> user,
                before |-> subscribed_users]
    /\ UNCHANGED <<seen_addresses, seen_file, monitor_task, pc, sleep_for,
                   token_data, run, tick, invoked, successes, failed,
                   everSeen, tasks, persisted>>

CmdNext ==
    \/ \E user \in Users : CmdSubscribe(user)
    \/ \E user \in Users : CmdUnsubscribe(user)
    \/ Shutdown
    \/ Terminate
    \/ Start

SpecCmd == CmdInit /\ [][CmdNext]_vars

\* C17: a user is subscribed exactly when the user's last command was
\* subscribe, or the user gave no command and was in the loaded set; once a
\* command has run the subscribed-users file holds the set of memory; a
\* subscribe of a subscribed user and an unsubscribe of a user who is not
\* subscribed change nothing.
C17_LastCommandDecides ==
    /\ \A u \in Users :
          u \in subscribed_users <=> last_cmd[u] \in {"subscribe", "loaded"}
    /\ call.fn \in {"subscribe", "unsubscribe"} =>
          /\ subscribed_file.kind = "array"
          /\ StoredSet(subscribed_file) = subscribed_users
    /\ (call.fn = "subscribe" /\ call.user \in call.before) =>
          subscribed_users = call.before
    /\ (call.fn = "unsubscribe" /\ call.user \notin call.before) =>
          subscribed_users = call.before

\* in the second run a user who is not subscribed unsubscribes, while the
\* other user is still subscribed from the file
C17_Witness ==
    /\ run = 1
    /\ call.fn = "unsubscribe"
    /\ call.user \notin call.before
    /\ last_cmd[call.user] = "unsubscribe"
    /\ \E u \in Users : last_cmd[u] = "loaded" /\ u \in subscribed_users

-----------------------------------------------------------------------------
(* The filter on its own: the steps of a tick between the fetch and the    *)
(* alert, applied to an address and a seen set                             *)

FilterAddresses ==
    {prefix \o suffix :
        prefix \in {"", "a", "abc123", "moon", "pump"},
        suffix \in {"", "pump", "moon", "ump", "oon", "Pump", "pumpx"}}

FilterSeenSets == SUBSET {"abc123pump", "amoon", "pump"}

\* lines 162-186 up to the call of send_alert: the step that ends the
\* filter, whether send_alert is called, the seen set and whether it is
\* saved
FilterTick(address, seen) ==
    LET decision == TickDecision(address, seen)
        marked == decision \in {"nonpump", "moon"}
    IN  [decision |-> decision,
         calls |-> IF decision = "send" THEN 1 ELSE 0,
         seen |-> IF marked THEN MarkSeen(seen, address) ELSE seen,
         saves |-> IF marked THEN 1 ELSE 0]

FilterInit ==
    /\ Quiet
    /\ \E address \in FilterAddresses, seen \in FilterSeenSets :
          call = [fn |-> "fetched", address |-> address, before |-> seen,
                  out |-> FilterTick("", {""})]

FilterCall ==
    /\ call.fn = "fetched"
    /\ call' = [call EXCEPT !.fn = "filter",
                            !.out = FilterTick(call.address, call.before)]
    /\ UNCHANGED main

SpecFilter == FilterInit /\ [][FilterCall]_vars

\* the tick of a loop that has no banned-suffix step
WithoutStep4(address, seen) ==
    IF address \in seen THEN [calls |-> 0, seen |-> seen, saves |-> 0]
    ELSE IF ~EndsWith(address, "pump")
         THEN [calls |-> 0, seen |-> seen \cup {address}, saves |-> 1]
    ELSE [calls |-> 1, seen |-> seen, saves |-> 0]

\* C20: the banned-suffix step never ends a tick; Notifier call, seen set
\* and save are those of a loop without that step; an address that ends
\* with "moon" and is not seen is ended by the required-suffix step.
C20_BannedStepIsDead ==
    call.fn = "filter" =>
        LET ref == WithoutStep4(call.address, call.before)
        IN  /\ call.out.decision # "moon"
            /\ call.out.calls = ref.calls
            /\ call.out.seen = ref.seen
            /\ call.out.saves = ref.saves
            /\ (EndsWith(call.address, "moon")
                  /\ call.address \notin call.before) =>
                  call.out.decision = "nonpump"

\* an address with both words, ending with "pump", went through the filter
C20_Witness ==
    /\ call.fn = "filter"
    /\ call.address = "moonpump"
    /\ call.before = {"amoon"}
    /\ call.out.decision = "send"

====
